---- MODULE Spec2Model ----
(***************************************************************************)
(* Character controller of static/js/game_core.js: the per-frame pipeline  *)
(* stepCore (contact classifier, climb state machine, movement integrator, *)
(* animation selector, follow camera) and the input events that write the  *)
(* key table and the camera angles between frames.                         *)
(*                                                                         *)
(* Numbers.  The source computes in doubles.  The model computes in fixed  *)
(* point: a length, speed, normal component, friction or angle x is the    *)
(* integer x*U, a time t is the integer t*TicksPerSec.  Division truncates *)
(* toward zero (Div) and a vector length is rounded up (Length).  Vectors  *)
(* in the horizontal plane are pairs <<x, z>>, body vectors are triples    *)
(* <<x, y, z>>.                                                            *)
(***************************************************************************)
EXTENDS Integers, Sequences, FiniteSets, TLC

U == 10 * 100
TicksPerSec == 6 * 10

(***************************************************************************)
(* CONFIG: the tunables of basic_game.html, at their documented defaults:  *)
(* lengths, speeds, rates and angles in thousandths (U), times in          *)
(* sixtieths of a second (TicksPerSec).                                    *)
(***************************************************************************)
GROUND_PLANE_Y == 0
PLAYER_RADIUS == 2000
PLAYER_HEIGHT == 8000
PLAYER_STARTING_YAW_DEG == 180
PLAYER_MOVE_MIDAIR == TRUE
PLAYER_MID_AIR_DAMPEN_NUM == 5
PLAYER_MID_AIR_DAMPEN_DEN == 10
PLAYER_JUMP_IMPULSE == 25000
PLAYER_MAX_SPEED == 15000
PLAYER_ACCEL == 55000
PLAYER_BRAKE == 75000
PLAYER_AIR_ACCEL == 18000
PLAYER_AIR_BRAKE == 8000
PLAYER_SIDE_DAMP_GROUND == 18000
PLAYER_SIDE_DAMP_AIR == 2000
PLAYER_USE_STRAFE_DAMP == TRUE
PLAYER_DEFAULT_FRICTION == 2500
WALL_SLIDE_FRICTION == 150
WALL_SLIDE_MAX_FALL_SPEED == (-8) * U
WALL_NORMAL_MAX_Y == 300
GROUND_NORMAL_MIN_Y == 100
GROUND_BAND_FRACTION_NUM == 10
GROUND_BAND_FRACTION_DEN == 100
WALL_CLIMB_SPEED == 9500
WALL_CLIMB_STICK_SPEED == 3000
WALL_CLIMB_MIN_NORMAL == 500
WALL_CLIMB_EXIT_COOLDOWN == 18
CLIMB_ANIM_GRACE_SECONDS == 60
ANIM_AIR_MIN_TIME == 6
MOVE_SPEED_THRESHOLD == 600
CAMERA_MIN_DISTANCE == 20000
CAMERA_MAX_DISTANCE == 40000
CAMERA_DEFAULT_PITCH == 550
CAMERA_MIN_PITCH == 150
CAMERA_MAX_PITCH == 1200
CAMERA_BELOW_PLAYER_ENABLE_HEIGHT == 18000
CAMERA_MIN_PITCH_BELOW == ((-65) * U) \div 100
\* sensitivities are per pixel, in 1/10000 rad
MOUSE_YAW_SENSITIVITY == 25
MOUSE_PITCH_SENSITIVITY == 20

(***************************************************************************)
(* Arithmetic of the fixed-point numbers.                                  *)
(***************************************************************************)
Abs(a) == IF a < 0 THEN -a ELSE a
Sign(a) == IF a < 0 THEN -1 ELSE IF a > 0 THEN 1 ELSE 0
Min(a, b) == IF a < b THEN a ELSE b
Max(a, b) == IF a > b THEN a ELSE b
\* a / b of the doubles, truncated toward zero (b > 0)
Div(a, b) == Sign(a) * (Abs(a) \div b)
\* THREE.MathUtils.clamp
Clamp(x, lo, hi) == Max(lo, Min(hi, x))

RECURSIVE SqrtSearch(_, _, _)
SqrtSearch(n, lo, hi) ==
  IF lo >= hi THEN lo
  ELSE LET mid == (lo + hi + 1) \div 2
       IN IF mid * mid <= n THEN SqrtSearch(n, mid, hi)
                            ELSE SqrtSearch(n, lo, mid - 1)
\* Math.sqrt of n (units squared), rounded up
SqrtUp(n) ==
  LET f == SqrtSearch(n, 0, Min(n, 46340))
  IN IF f * f < n THEN f + 1 ELSE f

\* THREE.Vector3 on the horizontal plane
LengthSq(v) == v[1] * v[1] + v[2] * v[2]
Length(v) == SqrtUp(LengthSq(v))
Dot(a, b) == Div(a[1] * b[1] + a[2] * b[2], U)
Add(a, b) == <<a[1] + b[1], a[2] + b[2]>>
Sub(a, b) == <<a[1] - b[1], a[2] - b[2]>>
\* v.multiplyScalar(num / den)
ScaleBy(v, num, den) == <<Div(v[1] * num, den), Div(v[2] * num, den)>>
\* a.addScaledVector(n, s) with n a unit-scaled vector
AddScaled(a, n, s) == <<a[1] + Div(n[1] * s, U), a[2] + Div(n[2] * s, U)>>
Zero2 == <<0, 0>>

RECURSIVE ExpSeries(_, _, _, _)
\* 1 + x + x^2/2! + ... from term number k on
ExpSeries(x, term, k, acc) ==
  IF term = 0 THEN acc
  ELSE ExpSeries(x, (term * x) \div (k * U), k + 1, acc + term)
\* Math.exp(-x) for x >= 0
ExpNeg(x) == (U * U) \div ExpSeries(x, U, 1, 0)

\* Math.atan(2^-i) for i = 0..10, in units of 1/U rad
AtanTable == <<785, 464, 245, 124, 62, 31, 16, 8, 4, 2, 1>>
PiRad == 3142

RECURSIVE Cordic(_, _, _, _)
\* the angle of (x, y), x > 0, by rotating the vector onto the x axis
Cordic(x, y, i, acc) ==
  IF i > Len(AtanTable) \/ y = 0 THEN acc
  ELSE LET sh == 2 ^ (i - 1)
       IN IF y > 0
          THEN Cordic(x + Div(y, sh), y - Div(x, sh), i + 1, acc + AtanTable[i])
          ELSE Cordic(x - Div(y, sh), y + Div(x, sh), i + 1, acc - AtanTable[i])
\* Math.atan2(y, x)
Atan2(y, x) ==
  IF x > 0 THEN Cordic(x, y, 1, 0)
  ELSE IF x < 0 THEN (IF y >= 0 THEN PiRad + Cordic(-x, -y, 1, 0)
                                ELSE Cordic(-x, -y, 1, 0) - PiRad)
  ELSE IF y > 0 THEN PiRad \div 2
  ELSE IF y < 0 THEN -(PiRad \div 2)
  ELSE 0

(***************************************************************************)
(* The state.  `state` is the object of createGameState; `Player` is the   *)
(* Ammo rigid body behind state.Player; `world` is what the physics world  *)
(* answers after its last stepSimulation (the dispatcher's manifolds and   *)
(* the downward ray of isGroundedRay).  `phase` is startCore's position.   *)
(* `frame` and `hold` record what the last stepCore did and what happened  *)
(* since the jump key last went down; the program does not read them.      *)
(* `CONFIG` holds the tunables a host page overrides before startCore; the *)
(* program never writes it.  `tick` is the parity of the number of calls   *)
(* of stepCore the host has made, in the specifications that count them;   *)
(* `exits` records how and when Climbing last ended, in the specifications *)
(* that time it; `lapse` is the frame time since the last frame that met   *)
(* the conditions of Climbing, in the specifications that time the grace.  *)
(***************************************************************************)
VARIABLES state, Player, world, phase, frame, hold, CONFIG, tick, exits, lapse

vars == <<state, Player, world, phase, frame, hold, CONFIG, tick, exits, lapse>>

AnimStates == {"idle", "move", "in_air", "climb"}
\* KeyboardEvent.code of the keys handleInput reads
KeyCodes == {"ArrowUp", "KeyW", "ArrowDown", "KeyS", "ArrowLeft", "KeyA",
             "ArrowRight", "KeyD", "Space"}

\* Ammo.getPointer of the player body, and of the other bodies of the world
PlayerPointer == 1

createGameState ==
  [ physicsWorld |-> FALSE, renderer |-> FALSE, dispatcher |-> FALSE,
    keys |-> [k \in KeyCodes |-> FALSE], spaceWasDown |-> FALSE,
    playerPtr |-> 0, playerMixer |-> FALSE,
    playerActions |-> [a \in AnimStates |-> FALSE],
    playerCurrentAction |-> "none", playerCurrentState |-> "idle",
    playerGrounded |-> FALSE, playerOnWall |-> FALSE, playerWallNormal |-> Zero2,
    playerClimbing |-> FALSE, climbExitTimer |-> 0, climbAnimGrace |-> 0,
    animInAir |-> FALSE, animAirTimer |-> 0,
    pointerLocked |-> FALSE, cameraYawInitialized |-> FALSE,
    cameraYaw |-> 0, cameraPitch |-> 0, cameraDistance |-> 30 * U,
    playerHeightAboveGround |-> 0, cameraPosition |-> <<0, 0, 0>>,
    lastMoveAxis |-> 0, moveAnimDir |-> 1 ]

NoPlayer ==
  [ present |-> FALSE, vel |-> <<0, 0, 0>>, pos |-> <<0, 0, 0>>, yaw |-> 0,
    friction |-> 0 ]

NoFrame ==
  [ ran |-> FALSE, dt |-> 0, climbingAtStart |-> FALSE, grounded |-> FALSE,
    moveAxis |-> 0, exitTimer |-> 0, wallLen |-> 0,
    climbingAtDecision |-> FALSE, climbDecision |-> FALSE, mover |-> "none",
    velIn |-> <<0, 0, 0>>, velOut |-> <<0, 0, 0>>, wallSliding |-> FALSE,
    target |-> Zero2, rate |-> 0, spaceEdge |-> FALSE, jumped |-> "none",
    stateBefore |-> "idle", latchBefore |-> FALSE, cameraRan |-> FALSE,
    groundedBefore |-> FALSE, airRun |-> 0, fault |-> FALSE ]

\* lastExit, sinceExit: how Climbing last ended and the frame time since (up
\* to WALL_CLIMB_EXIT_COOLDOWN), until it engages again; entryAfter,
\* entryElapsed: the same two as the frame's climb decision found them when it
\* engaged Climbing
NoExits ==
  [ lastExit |-> "none", sinceExit |-> 0, entryAfter |-> "none", entryElapsed |-> 0 ]

\* frames: the frames handleInput has run with the key down (counted up to
\* MaxHoldFrames); jumps: the calls of jump or wallJumpOff in them; first: what
\* the first of them could do ("climb": a wall-jump, "ground": a jump, "unable")
NoHold == [ frames |-> 0, jumps |-> 0, first |-> "none" ]

\* the context a pipeline stage reads and returns
Ctx(s, p, f) == [ state |-> s, Player |-> p, frame |-> f ]

(***************************************************************************)
(* Contacts (grounded / wall).  A manifold is [body0, body1, points]; a    *)
(* contact point is [normalWorldOnB, positionWorldOnA, positionWorldOnB,   *)
(* distance], the normal a triple and each position its height y.          *)
(***************************************************************************)
\* the thresholds written as literals in updatePlayerContacts
GroundBandSlack == (5 * U) \div 100
HorizLenSqEps == (U * U) \div 100000
\* l > 1e-6 of a length, and lengthSq() > 1e-6 of a squared length
LengthEps == U \div 1000000
LengthSqEps == (U * U) \div 1000000

reportedNormal(pt, isPlayer1) == pt.normalWorldOnB

\* the contact normal, turned to point at the player
orientedNormal(pt, isPlayer1) ==
  IF isPlayer1
  THEN <<-pt.normalWorldOnB[1], -pt.normalWorldOnB[2], -pt.normalWorldOnB[3]>>
  ELSE pt.normalWorldOnB

\* the height of the contact point on the player's body
playerPointY(pt, isPlayer0) ==
  IF isPlayer0 THEN pt.positionWorldOnA ELSE pt.positionWorldOnB

isGroundContact(n, py, groundBandTopY) ==
  py <= groundBandTopY + GroundBandSlack /\ n[2] > GROUND_NORMAL_MIN_Y

isWallContact(n) ==
  n[1] * n[1] + n[3] * n[3] > HorizLenSqEps /\ Abs(n[2]) <= WALL_NORMAL_MAX_Y

\* (nx / len, nz / len)
horizontalUnit(n) ==
  <<Div(n[1] * U, SqrtUp(n[1] * n[1] + n[3] * n[3])),
    Div(n[3] * U, SqrtUp(n[1] * n[1] + n[3] * n[3]))>>

\* the flags after a contact of normal n (oriented) at height py
accumulate(acc, n, py, groundBandTopY) ==
  [ grounded |-> acc.grounded \/ isGroundContact(n, py, groundBandTopY),
    onWall |-> acc.onWall \/ isWallContact(n),
    wallNormal |-> IF isWallContact(n) THEN Add(acc.wallNormal, horizontalUnit(n))
                   ELSE acc.wallNormal ]

\* the effect of one contact point on the flags accumulated so far
classifyContact(acc, pt, isPlayer0, isPlayer1, groundBandTopY) ==
  IF pt.distance >= 0 THEN acc
  ELSE accumulate(acc, orientedNormal(pt, isPlayer1), playerPointY(pt, isPlayer0),
                  groundBandTopY)

RECURSIVE classifyPoints(_, _, _, _, _, _)
\* the inner loop over a manifold's contact points, from point j on
classifyPoints(acc, pts, j, isPlayer0, isPlayer1, top) ==
  IF j > Len(pts) THEN acc
  ELSE classifyPoints(classifyContact(acc, pts[j], isPlayer0, isPlayer1, top),
                      pts, j + 1, isPlayer0, isPlayer1, top)

RECURSIVE classifyManifolds(_, _, _, _, _)
\* the outer loop over the dispatcher's manifolds, from manifold i on
classifyManifolds(acc, manifolds, i, playerPtr, top) ==
  IF i > Len(manifolds) THEN acc
  ELSE
    LET m == manifolds[i]
        isPlayer0 == m.body0 = playerPtr
        isPlayer1 == m.body1 = playerPtr
    IN IF ~isPlayer0 /\ ~isPlayer1
       THEN classifyManifolds(acc, manifolds, i + 1, playerPtr, top)
       ELSE classifyManifolds(
              classifyPoints(acc, m.points, 1, isPlayer0, isPlayer1, top),
              manifolds, i + 1, playerPtr, top)

keepAccumulated(acc) == acc.wallNormal

\* the final renormalisation of the accumulated wall normal
renormalizeWallNormal(acc) ==
  IF acc.onWall
  THEN LET l == Length(acc.wallNormal)
       IN IF l > LengthEps THEN ScaleBy(acc.wallNormal, U, l) ELSE acc.wallNormal
  ELSE acc.wallNormal

\* landing overrides climbing
landingOverride(s) ==
  IF s.playerGrounded
  THEN [s EXCEPT !.playerClimbing = FALSE, !.climbAnimGrace = 0]
  ELSE s

groundBandTopOf(p) ==
  p.pos[2] - PLAYER_HEIGHT \div 2
    + (PLAYER_HEIGHT * GROUND_BAND_FRACTION_NUM) \div GROUND_BAND_FRACTION_DEN

NoContacts == [grounded |-> FALSE, onWall |-> FALSE, wallNormal |-> Zero2]

\* the flags and the accumulated wall normal the two loops leave
accumulatedContacts(s, p, w) ==
  classifyManifolds(NoContacts, w.manifolds, 1, s.playerPtr, groundBandTopOf(p))

writeContacts(s, acc) ==
  landingOverride([s EXCEPT !.playerGrounded = acc.grounded,
                            !.playerOnWall = acc.onWall,
                            !.playerWallNormal = renormalizeWallNormal(acc)])

updatePlayerContacts(c, w) ==
  IF ~c.Player.present \/ ~c.state.dispatcher \/ c.state.playerPtr = 0
  THEN [c EXCEPT !.state.playerGrounded = FALSE, !.state.playerOnWall = FALSE,
                 !.state.playerWallNormal = Zero2]
  ELSE [c EXCEPT !.state = writeContacts(@, accumulatedContacts(@, c.Player, w))]

(***************************************************************************)
(* Input + movement.  The body's yaw is kept in quarter turns, so the      *)
(* basis vectors are exact.                                                *)
(***************************************************************************)
\* the downward probe: the physics world's rayTest answers w.rayHit
isGroundedRay(c, w) == w.rayHit

isGroundedProbeOnly(c, w) == isGroundedRay(c, w)

isGrounded(c, w) == c.state.playerGrounded \/ isGroundedRay(c, w)

\* (0,0,1) and (1,0,0) rotated by the body's yaw
getPlayerBasis(p) ==
  LET q == p.yaw % 4
  IN [ forward |-> CASE q = 0 -> <<0, U>> [] q = 1 -> <<U, 0>>
                     [] q = 2 -> <<0, -U>> [] OTHER -> <<-U, 0>>,
       right |-> CASE q = 0 -> <<U, 0>> [] q = 1 -> <<0, -U>>
                   [] q = 2 -> <<-U, 0>> [] OTHER -> <<0, U>> ]

\* a rotation about y by delta * dt; quarters is the number of quarter turns
\* the accumulated rotation completes in this frame
turn(p, delta, quarters) == [p EXCEPT !.yaw = (p.yaw + 4 + Sign(delta) * quarters) % 4]

jumpFromRest(p) == [p EXCEPT !.vel = <<0, PLAYER_JUMP_IMPULSE, 0>>]

jump(p) == [p EXCEPT !.vel = <<p.vel[1], PLAYER_JUMP_IMPULSE, p.vel[3]>>]

applyWallClimb(c) ==
  LET stick == ScaleBy(c.state.playerWallNormal, -WALL_CLIMB_STICK_SPEED, U)
  IN [c.Player EXCEPT !.friction = WALL_SLIDE_FRICTION,
                      !.vel = <<stick[1], WALL_CLIMB_SPEED, stick[2]>>]

WALL_JUMP_LAUNCH == 8 * U

wallJumpOffNoCooldown(c) ==
  LET away == ScaleBy(c.state.playerWallNormal, WALL_JUMP_LAUNCH, U)
  IN [c EXCEPT !.Player.vel = <<away[1], PLAYER_JUMP_IMPULSE, away[2]>>,
               !.state.playerClimbing = FALSE,
               !.state.climbAnimGrace = 0]

wallJumpOffStillClimbing(c) ==
  LET away == ScaleBy(c.state.playerWallNormal, WALL_JUMP_LAUNCH, U)
  IN [c EXCEPT !.Player.vel = <<away[1], PLAYER_JUMP_IMPULSE, away[2]>>,
               !.state.climbExitTimer = WALL_CLIMB_EXIT_COOLDOWN]

wallJumpOff(c) ==
  LET away == ScaleBy(c.state.playerWallNormal, WALL_JUMP_LAUNCH, U)
  IN [c EXCEPT !.Player.vel = <<away[1], PLAYER_JUMP_IMPULSE, away[2]>>,
               !.state.playerClimbing = FALSE,
               !.state.climbAnimGrace = 0,
               !.state.climbExitTimer = WALL_CLIMB_EXIT_COOLDOWN]

\* the wall-slide redirect: remove the component of v that points along n
stripIntoWall(v, n) ==
  LET into == Dot(v, n)
  IN IF into > 0 THEN AddScaled(v, n, -into) ELSE v

stepPast(current, target, maxDelta) ==
  IF Length(Sub(target, current)) > LengthEps
  THEN Add(current, ScaleBy(Sub(target, current), maxDelta, Length(Sub(target, current))))
  ELSE current

\* current moved toward target by at most maxDelta
stepToward(current, target, maxDelta) ==
  LET delta == Sub(target, current)
      deltaLen == Length(delta)
  IN IF deltaLen > maxDelta /\ deltaLen > LengthEps
     THEN Add(current, ScaleBy(delta, maxDelta, deltaLen))
     ELSE Add(current, delta)

\* the right component of v decayed by exp(-sideDamp * dt)
strafeDamp(v, basis, sideDamp, dt) ==
  LET f == basis.forward
      r == basis.right
      fSpd == Dot(v, f)
      rSpd == Dot(v, r)
      rKeep == ExpNeg(Div(sideDamp * dt, TicksPerSec))
      rSpdDamped == Div(rSpd * rKeep, U)
  IN Add(ScaleBy(f, fSpd, U), ScaleBy(r, rSpdDamped, U))

\* the speed cap
keepSpeed(v) == v

clampSpeed(v) ==
  LET spd == Length(v)
  IN IF spd > PLAYER_MAX_SPEED THEN ScaleBy(v, PLAYER_MAX_SPEED, spd) ELSE v

\* the wall-slide floor of the vertical speed
slideFloor(vy) == IF vy < WALL_SLIDE_MAX_FALL_SPEED THEN WALL_SLIDE_MAX_FALL_SPEED ELSE vy

brakeRate(moveAxis, accel, brake) == brake

\* the rate for this frame: accel with input, brake without
moveRate(moveAxis, accel, brake) == IF moveAxis # 0 THEN accel ELSE brake

isWallSliding(s, grounded, moveAxis) ==
  ~grounded /\ s.playerOnWall /\ moveAxis # 0

haveWallNormal(s) == LengthSq(s.playerWallNormal) > LengthSqEps

\* desired, after the redirect along the wall; the zero vector without input
targetVelocity(s, basis, moveAxis, wallSliding) ==
  IF moveAxis = 0 THEN Zero2
  ELSE IF wallSliding /\ haveWallNormal(s)
  THEN stripIntoWall(ScaleBy(basis.forward, PLAYER_MAX_SPEED * moveAxis, U),
                     s.playerWallNormal)
  ELSE ScaleBy(basis.forward, PLAYER_MAX_SPEED * moveAxis, U)

airAccelOf(grounded) ==
  (PLAYER_AIR_ACCEL * PLAYER_MID_AIR_DAMPEN_NUM) \div PLAYER_MID_AIR_DAMPEN_DEN

accelOf(grounded) ==
  IF grounded THEN PLAYER_ACCEL
  ELSE (PLAYER_AIR_ACCEL * PLAYER_MID_AIR_DAMPEN_NUM) \div PLAYER_MID_AIR_DAMPEN_DEN

brakeOf(grounded) == IF grounded THEN PLAYER_BRAKE ELSE PLAYER_AIR_BRAKE

sideDampOf(grounded) ==
  IF grounded THEN PLAYER_SIDE_DAMP_GROUND ELSE PLAYER_SIDE_DAMP_AIR

\* newVel before the wall-slide block: stepped, damped sideways, clamped
horizontalStep(current, target, rate, basis, grounded, dt) ==
  clampSpeed(IF PLAYER_USE_STRAFE_DAMP
             THEN strafeDamp(stepToward(current, target, Div(rate * dt, TicksPerSec)),
                             basis, sideDampOf(grounded), dt)
             ELSE stepToward(current, target, Div(rate * dt, TicksPerSec)))

\* the wall-slide block and the write of the velocity
writeVelocity(c, sliding, newVel) ==
  [c EXCEPT !.Player.friction = IF sliding THEN WALL_SLIDE_FRICTION
                                ELSE PLAYER_DEFAULT_FRICTION,
            !.Player.vel =
               IF sliding
               THEN <<stripIntoWall(newVel, c.state.playerWallNormal)[1],
                      slideFloor(c.Player.vel[2]),
                      stripIntoWall(newVel, c.state.playerWallNormal)[2]>>
               ELSE <<newVel[1], c.Player.vel[2], newVel[2]>>]

moveToward(c, grounded, dt, wallSliding, target, rate) ==
  [writeVelocity(c, wallSliding /\ haveWallNormal(c.state),
                 horizontalStep(<<c.Player.vel[1], c.Player.vel[3]>>, target, rate,
                                getPlayerBasis(c.Player), grounded, dt))
     EXCEPT !.frame.wallSliding = wallSliding,
            !.frame.target = target,
            !.frame.rate = rate]

moveWith(c, grounded, moveAxis, dt, wallSliding) ==
  moveToward(c, grounded, dt, wallSliding,
             targetVelocity(c.state, getPlayerBasis(c.Player), moveAxis, wallSliding),
             moveRate(moveAxis, accelOf(grounded), brakeOf(grounded)))

keepAxis(grounded, moveAxisIn) == moveAxisIn

midAirAxis(grounded, moveAxisIn) ==
  IF ~CONFIG.PLAYER_MOVE_MIDAIR /\ ~grounded THEN 0 ELSE moveAxisIn

applyCharacterMovement(c, w, moveAxisIn, dt) ==
  moveWith(c, isGrounded(c, w), midAirAxis(isGrounded(c, w), moveAxisIn), dt,
           isWallSliding(c.state, isGrounded(c, w),
                         midAirAxis(isGrounded(c, w), moveAxisIn)))

wallOkOnContact(s) == s.playerOnWall

wallOkPhysics(s) ==
  s.playerOnWall /\ Length(s.playerWallNormal) >= CONFIG.WALL_CLIMB_MIN_NORMAL

canAttemptClimbAnyTime(s, grounded, moveAxis) == ~grounded /\ moveAxis > 0

canAttemptClimb(s, grounded, moveAxis) ==
  ~grounded /\ moveAxis > 0 /\ s.climbExitTimer <= 0

climbDecisionKeepsGrace(s, grounded, moveAxis) ==
  IF s.playerClimbing /\ (grounded \/ moveAxis <= 0)
  THEN [s EXCEPT !.playerClimbing = FALSE]
  ELSE IF canAttemptClimb(s, grounded, moveAxis) /\ wallOkPhysics(s)
  THEN [s EXCEPT !.playerClimbing = TRUE,
                 !.climbAnimGrace = CLIMB_ANIM_GRACE_SECONDS]
  ELSE IF s.playerClimbing /\ s.climbAnimGrace <= 0
  THEN [s EXCEPT !.playerClimbing = FALSE]
  ELSE s

\* the climb decision of handleInput on s, whose timers are already decremented
climbDecision(s, grounded, moveAxis) ==
  LET wallOk == wallOkPhysics(s)
      canAttempt == canAttemptClimb(s, grounded, moveAxis)
  IN IF s.playerClimbing
     THEN IF grounded \/ moveAxis <= 0
          THEN [s EXCEPT !.playerClimbing = FALSE, !.climbAnimGrace = 0]
          ELSE IF canAttempt /\ wallOk
          THEN [s EXCEPT !.playerClimbing = TRUE,
                         !.climbAnimGrace = CLIMB_ANIM_GRACE_SECONDS]
          ELSE IF s.climbAnimGrace <= 0 THEN [s EXCEPT !.playerClimbing = FALSE]
          ELSE s
     ELSE IF canAttempt /\ wallOk
          THEN [s EXCEPT !.playerClimbing = TRUE,
                         !.climbAnimGrace = CLIMB_ANIM_GRACE_SECONDS]
          ELSE s

jumpLevel(spaceDown, spaceWasDown) == spaceDown

keepTimer(timer, dt) == timer

\* the jump key seen going down: this frame's flag against last frame's
jumpEdge(spaceDown, spaceWasDown) == spaceDown /\ ~spaceWasDown

tickDown(timer, dt) == IF timer > 0 THEN Max(0, timer - dt) ELSE timer

moveAxisOf(keys) ==
  (IF keys["ArrowUp"] \/ keys["KeyW"] THEN 1 ELSE 0)
  - (IF keys["ArrowDown"] \/ keys["KeyS"] THEN 1 ELSE 0)

turned(p, keys, quarters) ==
  IF keys["ArrowLeft"] \/ keys["KeyA"]
  THEN IF keys["ArrowRight"] \/ keys["KeyD"]
       THEN turn(turn(p, 1, quarters), -1, quarters) ELSE turn(p, 1, quarters)
  ELSE IF keys["ArrowRight"] \/ keys["KeyD"] THEN turn(p, -1, quarters) ELSE p

\* the timers, the keys, the turn and the move axis
readInput(c, dt, quarters) ==
  [c EXCEPT !.state.climbExitTimer = tickDown(@, dt),
            !.state.climbAnimGrace = tickDown(@, dt),
            !.state.lastMoveAxis = moveAxisOf(c.state.keys),
            !.Player = turned(@, c.state.keys, quarters),
            !.frame.moveAxis = moveAxisOf(c.state.keys)]

\* the climb decision, on what readInput left
decideClimb(c, grounded) ==
  [c EXCEPT !.state = climbDecision(@, grounded, c.frame.moveAxis),
            !.frame.grounded = grounded,
            !.frame.exitTimer = c.state.climbExitTimer,
            !.frame.wallLen = Length(c.state.playerWallNormal),
            !.frame.climbingAtDecision = c.state.playerClimbing,
            !.frame.velIn = c.Player.vel]

\* the mover the decision selects
moveOrClimb(c, w, dt) ==
  IF ~c.state.playerClimbing
  THEN [applyCharacterMovement(c, w, c.frame.moveAxis, dt)
          EXCEPT !.frame.mover = "move", !.frame.climbDecision = FALSE]
  ELSE [c EXCEPT !.Player = applyWallClimb(c),
                 !.frame.mover = "climb", !.frame.climbDecision = TRUE]

jumpOnEdgeGroundOnly(c, edge) ==
  IF edge /\ c.frame.grounded
  THEN [c EXCEPT !.Player = jump(@), !.frame.jumped = "jump"]
  ELSE c

\* the jump edge, on the velocity the mover wrote
jumpOnEdge(c, edge) ==
  IF ~edge THEN c
  ELSE IF c.state.playerClimbing
  THEN [wallJumpOff(c) EXCEPT !.frame.jumped = "walljump"]
  ELSE IF c.frame.grounded
  THEN [c EXCEPT !.Player = jump(@), !.frame.jumped = "jump"]
  ELSE c

handleJump(c) ==
  [jumpOnEdge([c EXCEPT !.frame.velOut = c.Player.vel],
              jumpEdge(c.state.keys["Space"], c.state.spaceWasDown))
     EXCEPT !.state.spaceWasDown = c.state.keys["Space"],
            !.frame.spaceEdge = jumpEdge(c.state.keys["Space"], c.state.spaceWasDown)]

handleInput(c, w, dt, quarters) ==
  IF ~c.Player.present THEN c
  ELSE handleJump(moveOrClimb(
         decideClimb(readInput(c, dt, quarters), isGrounded(c, w)), w, dt))

(***************************************************************************)
(* Animation state switching.  A clip action is named by its state; the    *)
(* handle playerActions[name] is present (TRUE) or null (FALSE).           *)
(***************************************************************************)
playUnchecked(s, name, immediate) ==
  IF s.playerCurrentAction = name THEN s
  ELSE [s EXCEPT !.playerCurrentAction = name, !.playerCurrentState = name]

playPlayerAction(s, name, immediate) ==
  IF ~s.playerActions[name] THEN s
  ELSE IF s.playerCurrentAction = name THEN s
  ELSE [s EXCEPT !.playerCurrentAction = name, !.playerCurrentState = name]

applyMoveAnimDirection(s, dir, force) ==
  IF ~s.playerActions["move"] THEN s
  ELSE LET clampedDir == IF dir < 0 THEN -1 ELSE 1
       IN IF ~force /\ clampedDir = s.moveAnimDir THEN s
          ELSE [s EXCEPT !.moveAnimDir = clampedDir]

airLatchAtOnce(s, grounded, dt) ==
  [s EXCEPT !.animInAir = ~grounded,
            !.animAirTimer = IF grounded THEN 0 ELSE @ + dt]

\* the debounce of the airborne latch
airLatch(s, grounded, dt) ==
  IF grounded
  THEN [s EXCEPT !.animInAir = FALSE, !.animAirTimer = 0]
  ELSE LET t == s.animAirTimer + dt
       IN [s EXCEPT !.animAirTimer = t,
                    !.animInAir = IF ~@ /\ t >= ANIM_AIR_MIN_TIME THEN TRUE ELSE @]

\* Math.sqrt(lv.x * lv.x + lv.z * lv.z)
horizSpeed(p) == Length(<<p.vel[1], p.vel[3]>>)

desiredOnGround(s, p) ==
  IF horizSpeed(p) > MOVE_SPEED_THRESHOLD THEN "move" ELSE "idle"

\* the state selected when not climbing: by the latch, then by the speed
desiredState(s, p) ==
  IF s.animInAir THEN "in_air"
  ELSE IF horizSpeed(p) > MOVE_SPEED_THRESHOLD THEN "move"
  ELSE "idle"

directMoveAnimInMoveOnly(s, desired) ==
  IF desired = "move"
  THEN applyMoveAnimDirection(s, IF s.lastMoveAxis < 0 THEN -1 ELSE 1, FALSE)
  ELSE s

\* the playback direction of the move clip, by the state selected
directMoveAnim(s, desired) ==
  IF desired = "move"
  THEN applyMoveAnimDirection(s, IF s.lastMoveAxis < 0 THEN -1 ELSE 1, FALSE)
  ELSE IF s.moveAnimDir # 1 THEN applyMoveAnimDirection(s, 1, FALSE)
  ELSE s

updatePlayerAnimationState(c, w, dt) ==
  IF ~c.Player.present \/ ~c.state.playerMixer THEN c
  ELSE
    LET s == c.state
    IN IF s.playerClimbing \/ s.climbAnimGrace > 0
       THEN LET s1 == [s EXCEPT !.animInAir = FALSE, !.animAirTimer = 0]
            IN [c EXCEPT !.state = IF s1.playerCurrentState # "climb"
                                   THEN playPlayerAction(s1, "climb", FALSE)
                                   ELSE s1]
       ELSE
         LET s1 == airLatch(s, isGrounded(c, w), dt)
             desired == desiredState(s1, c.Player)
             s2 == IF desired # s1.playerCurrentState
                   THEN playPlayerAction(s1, desired, FALSE) ELSE s1
         IN [c EXCEPT !.state = directMoveAnim(s2, desired)]

(***************************************************************************)
(* Camera follow.  The camera's position is read only by the one-time      *)
(* initialisation, where it still is the one initThree has set; the        *)
(* per-frame lerp toward the desired position is not part of the state.    *)
(***************************************************************************)
CameraStartPosition == <<0, 55 * U, 100 * U>>
\* lengths of camera offsets are taken on a grid of CoarseGrid units
CoarseGrid == 10 * 10
Coarse(x) == Div(x, CoarseGrid)
Length3(v) ==
  CoarseGrid * SqrtUp(Coarse(v[1]) * Coarse(v[1]) + Coarse(v[2]) * Coarse(v[2])
                      + Coarse(v[3]) * Coarse(v[3]))

belowPlayerMinPitch(s) == CAMERA_MIN_PITCH_BELOW

getDynamicMinPitch(s) ==
  IF s.playerHeightAboveGround > CAMERA_BELOW_PLAYER_ENABLE_HEIGHT
  THEN CAMERA_MIN_PITCH_BELOW
  ELSE CAMERA_MIN_PITCH

\* the clamp of the pitch into [dynamicMinPitch, CAMERA_MAX_PITCH]
clampPitch(s) ==
  [s EXCEPT !.cameraPitch = Clamp(@, getDynamicMinPitch(s), CAMERA_MAX_PITCH)]

\* Initialize yaw/distance once
initCamera(s, targetPos) ==
  LET toCam == <<s.cameraPosition[1] - targetPos[1],
                 s.cameraPosition[2] - targetPos[2],
                 s.cameraPosition[3] - targetPos[3]>>
      h == Length3(<<toCam[1], 0, toCam[3]>>)
      horizLen == IF h = 0 THEN 1 ELSE h
      s1 == [s EXCEPT
               !.cameraDistance = Clamp(Length3(toCam), CAMERA_MIN_DISTANCE,
                                        CAMERA_MAX_DISTANCE),
               !.cameraYaw = Atan2(toCam[1], toCam[3]),
               !.cameraPitch = Atan2(toCam[2], horizLen)]
  IN [clampPitch(s1) EXCEPT !.cameraYawInitialized = TRUE]

updateCamera(c) ==
  IF ~c.Player.present THEN c
  ELSE
    LET targetPos == c.Player.pos
        s1 == [c.state EXCEPT !.playerHeightAboveGround = targetPos[2] - GROUND_PLANE_Y]
        s2 == IF ~s1.cameraYawInitialized THEN initCamera(s1, targetPos) ELSE s1
    IN [c EXCEPT !.state = clampPitch(s2), !.frame.cameraRan = TRUE]

(***************************************************************************)
(* stepCore: one frame.  ph is what the physics step leaves behind: the    *)
(* body's velocity and position and the world's manifolds and ray answer.  *)
(***************************************************************************)
\* a call on the physics world or the renderer that is not there throws, and
\* the rest of the frame does not run
faulted(c) == [c EXCEPT !.frame = [NoFrame EXCEPT !.fault = TRUE]]

stepCore(c, ph, dt, quarters) ==
  IF ~c.state.physicsWorld THEN faulted(c) ELSE
  LET w == [manifolds |-> ph.manifolds, rayHit |-> ph.rayHit]
      p0 == IF c.Player.present
            THEN [c.Player EXCEPT !.vel = ph.vel, !.pos = ph.pos]
            ELSE c.Player
      c0 == [c EXCEPT !.Player = p0,
                      !.frame = [NoFrame EXCEPT
                                   !.ran = TRUE, !.dt = dt,
                                   !.climbingAtStart = c.state.playerClimbing,
                                   !.groundedBefore = c.frame.ran /\ c.frame.grounded,
                                   !.stateBefore = c.state.playerCurrentState,
                                   !.latchBefore = c.state.animInAir]]
      c1 == updatePlayerContacts(c0, w)
      c2 == handleInput(c1, w, dt, quarters)
      c3 == updatePlayerAnimationState(c2, w, dt)
  IN IF ~c.state.renderer THEN [updateCamera(c3) EXCEPT !.frame.fault = TRUE]
     ELSE updateCamera(c3)

(***************************************************************************)
(* The physics world's answers, as the frames of a specification draw      *)
(* them.  A contact is described from the player's side (the normal that   *)
(* points from the other body to the player, the height of the player's    *)
(* contact point above the capsule's bottom) and written into the manifold *)
(* as Bullet reports it for the side the player is on.                     *)
(***************************************************************************)
\* the other body's contact point lies this much away from the player's
PointGap == 2 * U

ContactPoint(side, cy, k) ==
  LET py == cy - PLAYER_HEIGHT \div 2 + k.off
      raw == IF side = 0 THEN k.n ELSE <<-k.n[1], -k.n[2], -k.n[3]>>
  IN [ normalWorldOnB |-> raw,
       positionWorldOnA |-> IF side = 0 THEN py ELSE py + PointGap,
       positionWorldOnB |-> IF side = 0 THEN py + PointGap ELSE py,
       distance |-> k.dist ]

\* a manifold between the player (body0 if side = 0, else body1) and other
Manifold(side, other, cy, kinds) ==
  [ body0 |-> IF side = 0 THEN PlayerPointer ELSE other,
    body1 |-> IF side = 0 THEN other ELSE PlayerPointer,
    points |-> [j \in 1..Len(kinds) |-> ContactPoint(side, cy, kinds[j])] ]

\* a manifold between two other bodies
ForeignManifold(cy, kinds) ==
  [ body0 |-> 2, body1 |-> 3,
    points |-> [j \in 1..Len(kinds) |-> ContactPoint(0, cy, kinds[j])] ]

Touching == -(U \div 100)
Kind(n, off, dist) == [n |-> n, off |-> off, dist |-> dist]
FloorKind == Kind(<<0, U, 0>>, 0, Touching)
WallKind(nx, nz) == Kind(<<nx, 0, nz>>, PLAYER_HEIGHT \div 2, Touching)

PhysicsAnswer(ms, ray, vel, pos) ==
  [vel |-> vel, pos |-> pos, manifolds |-> ms, rayHit |-> ray]

(***************************************************************************)
(* Actions.                                                                *)
(***************************************************************************)
\* the tunables at their defaults
DefaultConfig ==
  [ PLAYER_MOVE_MIDAIR |-> PLAYER_MOVE_MIDAIR,
    WALL_CLIMB_MIN_NORMAL |-> WALL_CLIMB_MIN_NORMAL ]

\* the state a host page is in after createGameState, its CONFIG being config
Created(config) ==
  /\ state = createGameState
  /\ Player = NoPlayer
  /\ world = [manifolds |-> <<>>, rayHit |-> FALSE]
  /\ phase = "created"
  /\ frame = NoFrame
  /\ hold = NoHold
  /\ CONFIG = config
  /\ tick = 0
  /\ exits = NoExits
  /\ lapse = 0

Init == Created(DefaultConfig)

\* startCore up to createPlayer's first await: initThree, initPhysics and the
\* player's body
StartCoreSetup ==
  /\ phase = "created"
  /\ phase' = "loading"
  /\ state' = [state EXCEPT !.physicsWorld = TRUE, !.renderer = TRUE,
                            !.dispatcher = TRUE, !.playerPtr = PlayerPointer,
                            !.cameraPosition = CameraStartPosition]
  /\ Player' = [ present |-> TRUE, vel |-> <<0, 0, 0>>,
                 pos |-> <<0, PLAYER_HEIGHT \div 2, 0>>,
                 yaw |-> PLAYER_STARTING_YAW_DEG \div 90,
                 friction |-> PLAYER_DEFAULT_FRICTION ]
  /\ UNCHANGED <<world, frame, hold, CONFIG, tick, exits, lapse>>

idleFirst(actions) == IF actions["idle"] THEN "idle" ELSE "none"

\* the first clip of idle, move, in_air, climb that is loaded
firstLoaded(actions) ==
  IF actions["idle"] THEN "idle"
  ELSE IF actions["move"] THEN "move"
  ELSE IF actions["in_air"] THEN "in_air"
  ELSE IF actions["climb"] THEN "climb"
  ELSE "none"

\* the rest of startCore: the clips in `loaded` have animations; bindKeys;
\* camera defaults
StartCoreFinish(loaded) ==
  /\ phase = "loading"
  /\ phase' = "running"
  /\ LET s1 == [state EXCEPT !.playerMixer = TRUE,
                             !.playerActions = [a \in AnimStates |-> a \in loaded],
                             !.moveAnimDir = 1]
         s2 == applyMoveAnimDirection(s1, 1, TRUE)
         s3 == IF firstLoaded(s2.playerActions) = "none" THEN s2
               ELSE playPlayerAction(s2, firstLoaded(s2.playerActions), TRUE)
     IN state' = [s3 EXCEPT
                    !.cameraPitch = CAMERA_DEFAULT_PITCH,
                    !.cameraDistance = Clamp(@, CAMERA_MIN_DISTANCE, CAMERA_MAX_DISTANCE)]
  /\ UNCHANGED <<Player, world, frame, hold, CONFIG, tick, exits, lapse>>

KeyDown(code) ==
  /\ phase = "running"
  /\ state' = [state EXCEPT !.keys[code] = TRUE]
  /\ hold' = IF code = "Space" /\ ~state.keys["Space"] THEN NoHold ELSE hold
  /\ UNCHANGED <<Player, world, phase, frame, CONFIG, tick, exits, lapse>>

KeyUpClearsEdge(code) ==
  /\ phase = "running"
  /\ state' = [state EXCEPT !.keys[code] = FALSE, !.spaceWasDown = FALSE]
  /\ UNCHANGED <<Player, world, phase, frame, hold, CONFIG, tick, exits, lapse>>

KeyUp(code) ==
  /\ phase = "running"
  /\ state' = [state EXCEPT !.keys[code] = FALSE]
  /\ UNCHANGED <<Player, world, phase, frame, hold, CONFIG, tick, exits, lapse>>

PointerLockChange(locked) ==
  /\ phase # "created"
  /\ state' = [state EXCEPT !.pointerLocked = locked]
  /\ UNCHANGED <<Player, world, phase, frame, hold, CONFIG, tick, exits, lapse>>

PointerLockError ==
  /\ phase # "created"
  /\ state' = [state EXCEPT !.pointerLocked = FALSE]
  /\ UNCHANGED <<Player, world, phase, frame, hold, CONFIG, tick, exits, lapse>>

\* the mousemove listener's effect on the state
mouseMove(s, movementX, movementY) ==
  IF ~s.pointerLocked THEN s
  ELSE clampPitch([s EXCEPT
         !.cameraYaw = @ - Div(movementX * MOUSE_YAW_SENSITIVITY * U, 10000),
         !.cameraPitch = @ - Div(movementY * MOUSE_PITCH_SENSITIVITY * U, 10000)])

MaxYaw == 2
MouseMove(movementX, movementY) ==
  /\ phase # "created"
  /\ state' = mouseMove(state, movementX, movementY)
  /\ Abs(state'.cameraYaw) <= MaxYaw * U
  /\ UNCHANGED <<Player, world, phase, frame, hold, CONFIG, tick, exits, lapse>>

Wheel(deltaY) ==
  /\ phase # "created"
  /\ state' = [state EXCEPT !.cameraDistance =
                 Clamp(@ + Sign(deltaY) * 2 * U, CAMERA_MIN_DISTANCE, CAMERA_MAX_DISTANCE)]
  /\ UNCHANGED <<Player, world, phase, frame, hold, CONFIG, tick, exits, lapse>>

MaxAirTime == 18
MaxHoldFrames == 2

\* what the frame adds to the record of the current hold of the jump key
holdAfter(h, before, after) ==
  IF ~after.state.keys["Space"] \/ ~after.Player.present THEN h
  ELSE [ frames |-> Min(h.frames + 1, MaxHoldFrames),
         jumps |-> Min(h.jumps + (IF after.frame.jumped # "none" THEN 1 ELSE 0),
                       MaxHoldFrames),
         first |-> IF h.frames > 0 THEN h.first
                   ELSE IF before.state.spaceWasDown THEN "unable"
                   ELSE IF after.frame.climbDecision THEN "climb"
                   ELSE IF after.frame.grounded THEN "ground"
                   ELSE "unable" ]

\* the frame time of the unbroken run of frames, this one the last, that the
\* animation selector saw neither grounded nor climbing
airRunAfter(f, after, dt) ==
  IF after.Player.present /\ ~after.frame.grounded /\ ~after.state.playerClimbing
     /\ after.state.climbAnimGrace = 0
  THEN f.airRun + dt ELSE 0

StepCoreUnguarded(dt, ph, quarters) ==
  /\ phase # "loading"
  /\ \E after \in {stepCore(Ctx(state, Player, frame), ph, dt, quarters)} :
        /\ after.state.animAirTimer <= MaxAirTime
        /\ state' = after.state
        /\ Player' = after.Player
        /\ frame' = [after.frame EXCEPT !.airRun = airRunAfter(frame, after, dt)]
        /\ world' = [manifolds |-> ph.manifolds, rayHit |-> ph.rayHit]
        /\ hold' = holdAfter(hold, Ctx(state, Player, frame), after)
        /\ UNCHANGED <<phase, CONFIG>>

\* one call of stepCore(state, CONFIG, dt), the host's frame
\* how Climbing ended in the frame, if it did
exitCause(before, after) ==
  IF after.frame.jumped = "walljump" THEN "walljump"
  ELSE IF ~before.state.playerClimbing \/ after.state.playerClimbing THEN "none"
  ELSE IF after.frame.grounded THEN "landing"
  ELSE IF after.frame.moveAxis <= 0 THEN "release"
  ELSE "lost"

\* the record of exits and entries after a frame that took before to after
exitsAfter(x, before, after, dt) ==
  LET entered == ~before.state.playerClimbing /\ after.frame.climbDecision
      elapsed == Min(x.sinceExit + dt, WALL_CLIMB_EXIT_COOLDOWN)
      cause == exitCause(before, after)
  IN [ lastExit |-> IF cause # "none" THEN cause
                    ELSE IF after.state.playerClimbing THEN "none" ELSE x.lastExit,
       sinceExit |-> IF cause # "none" \/ after.state.playerClimbing \/ x.lastExit = "none"
                     THEN 0 ELSE elapsed,
       entryAfter |-> IF entered THEN x.lastExit ELSE "none",
       entryElapsed |-> IF entered /\ x.lastExit # "none" THEN elapsed ELSE 0 ]

StepCore(dt, ph, quarters) ==
  /\ phase # "loading"
  /\ IF ~state.physicsWorld \/ ~state.renderer
     THEN /\ frame' = NoFrame
          /\ UNCHANGED <<state, Player, world, phase, hold, CONFIG>>
     ELSE \E after \in {stepCore(Ctx(state, Player, frame), ph, dt, quarters)} :
             /\ after.state.animAirTimer <= MaxAirTime
             /\ state' = after.state
             /\ Player' = after.Player
             /\ frame' = [after.frame EXCEPT !.airRun = airRunAfter(frame, after, dt)]
             /\ world' = [manifolds |-> ph.manifolds, rayHit |-> ph.rayHit]
             /\ hold' = holdAfter(hold, Ctx(state, Player, frame), after)
             /\ UNCHANGED <<phase, CONFIG>>

\* a frame of a host that keeps no count of its frames, and of one that does
Frame(dt, ph, quarters) == StepCore(dt, ph, quarters) /\ UNCHANGED <<tick, exits, lapse>>
CountedFrame(dt, ph, quarters) ==
  StepCore(dt, ph, quarters) /\ tick' = 1 - tick /\ UNCHANGED <<exits, lapse>>

\* a frame whose exits from Climbing and entries into it are timed
TimedFrame(dt, ph, quarters) ==
  /\ StepCore(dt, ph, quarters)
  /\ exits' = IF frame'.ran
              THEN exitsAfter(exits, Ctx(state, Player, frame),
                              Ctx(state', Player', frame'), dt)
              ELSE exits
  /\ UNCHANGED <<tick, lapse>>

\* the frame met the conditions under which the climb decision engages or
\* refreshes Climbing
qualifying(after) ==
  /\ canAttemptClimb([climbExitTimer |-> after.frame.exitTimer],
                     after.frame.grounded, after.frame.moveAxis)
  /\ after.state.playerOnWall
  /\ after.frame.wallLen >= CONFIG.WALL_CLIMB_MIN_NORMAL

\* the frame time since the last qualifying frame, counted while Climbing
lapseAfter(l, before, after, dt) ==
  IF qualifying(after) THEN 0
  ELSE IF before.state.playerClimbing
  THEN Min(l + dt, 2 * CLIMB_ANIM_GRACE_SECONDS)
  ELSE 0

\* a frame with the time since the last qualifying frame kept
LapseTimedFrame(dt, ph, quarters) ==
  /\ StepCore(dt, ph, quarters)
  /\ lapse' = IF frame'.ran
              THEN lapseAfter(lapse, Ctx(state, Player, frame),
                              Ctx(state', Player', frame'), dt)
              ELSE lapse
  /\ UNCHANGED <<tick, exits>>

(***************************************************************************)
(* Spec: the controller under key events.  Frames of 0.1 s and 0.2 s; the  *)
(* physics step leaves the body standing, falling or moving, on the floor, *)
(* at a wall, between two walls or in the air.                             *)
(***************************************************************************)
AllClips == AnimStates
CtlKeys == {"KeyW", "Space"}
CtlScenes(cy) ==
  { <<>>,
    <<Manifold(0, 2, cy, <<FloorKind>>)>>,
    <<Manifold(1, 2, cy, <<WallKind(0, U)>>)>>,
    <<Manifold(0, 2, cy, <<FloorKind>>), Manifold(0, 3, cy, <<WallKind(0, U)>>)>>,
    <<Manifold(0, 2, cy, <<WallKind(U, 0)>>), Manifold(1, 3, cy, <<WallKind(-U, 0)>>)>> }

CtlFrame ==
  \E ray \in BOOLEAN, ms \in CtlScenes(PLAYER_HEIGHT \div 2) :
    Frame(TicksPerSec \div 10,
             PhysicsAnswer(ms, ray, <<3 * U, -12 * U, -4 * U>>,
                           <<0, PLAYER_HEIGHT \div 2, 0>>), 0)

Next ==
  \/ StartCoreSetup
  \/ StartCoreFinish(AllClips)
  \/ \E k \in CtlKeys : KeyDown(k)
  \/ \E k \in CtlKeys : KeyUp(k)
  \/ CtlFrame

Spec == Init /\ [][Next]_vars

(***************************************************************************)
(* The integrator under arbitrary velocities: frames of several lengths,   *)
(* forward and back keys, bodies faster than PLAYER_MAX_SPEED and    *)
(* falling faster than WALL_SLIDE_MAX_FALL_SPEED, one wall and two facing  *)
(* walls.                                                                  *)
(***************************************************************************)
MoveVels ==
  { <<0, 0, 0>>, <<20 * U, -20 * U, 0>>, <<-9 * U, -12 * U, 12 * U>>,
    <<3 * U, -5 * U, -4 * U>> }
MoveScenes(cy) ==
  { <<>>,
    <<Manifold(0, 2, cy, <<FloorKind>>)>>,
    <<Manifold(0, 2, cy, <<WallKind(U, 0)>>)>>,
    <<Manifold(1, 2, cy, <<WallKind(-600, 800), WallKind(0, U)>>)>>,
    <<Manifold(0, 2, cy, <<WallKind(U, 0)>>), Manifold(1, 3, cy, <<WallKind(-U, 0)>>)>> }

MoveFrame ==
  \E dt \in {0, TicksPerSec \div 10, (3 * TicksPerSec) \div 10}, vel \in MoveVels :
    \E ms \in MoveScenes(PLAYER_HEIGHT \div 2) :
      Frame(dt, PhysicsAnswer(ms, FALSE, vel, <<0, PLAYER_HEIGHT \div 2, 0>>), 0)

NextMove ==
  \/ StartCoreSetup
  \/ StartCoreFinish(AllClips)
  \/ \E k \in {"KeyW", "KeyS"} : KeyDown(k)
  \/ \E k \in {"KeyW", "KeyS"} : KeyUp(k)
  \/ MoveFrame

SpecMove == Init /\ [][NextMove]_vars

(***************************************************************************)
(* The contact classifier under contacts of every sort: the player on      *)
(* either side of the pair, separated and penetrating points, normals at   *)
(* and just above GROUND_NORMAL_MIN_Y, points at and above the ground      *)
(* band, pairs the player is no part of, and two wall contacts whose unit  *)
(* normals add up to (0.9, 0, 0).                                          *)
(***************************************************************************)
BandTop == (PLAYER_HEIGHT * GROUND_BAND_FRACTION_NUM) \div GROUND_BAND_FRACTION_DEN

ContactKinds ==
  { FloorKind,
    Kind(<<0, U, 0>>, 0, 0),
    Kind(<<0, U, 0>>, 0, U \div 100),
    Kind(<<995, GROUND_NORMAL_MIN_Y + 1, 0>>, 0, Touching),
    Kind(<<995, GROUND_NORMAL_MIN_Y, 0>>, 0, Touching),
    Kind(<<0, U, 0>>, BandTop, Touching),
    Kind(<<0, U, 0>>, BandTop + GroundBandSlack + 1, Touching),
    Kind(<<0, -U, 0>>, 0, Touching) }

ContactScenes(cy) ==
  { <<Manifold(side, 2, cy, <<k>>)>> : side \in {0, 1}, k \in ContactKinds }
  \cup { <<>>,
         <<ForeignManifold(cy, <<FloorKind>>)>>,
         <<Manifold(0, 2, cy, <<WallKind(450, 893), WallKind(450, -893)>>)>>,
         <<Manifold(0, 2, cy, <<Kind(<<0, -U, 0>>, 0, Touching)>>),
           Manifold(1, 3, cy, <<FloorKind>>)>> }

ContactFrame ==
  \E cy \in {PLAYER_HEIGHT \div 2, 10 * U} :
    \E ms \in ContactScenes(cy) :
      Frame(TicksPerSec \div 10,
               PhysicsAnswer(ms, FALSE, <<0, -12 * U, 0>>, <<0, cy, 0>>), 0)

NextContacts ==
  \/ StartCoreSetup
  \/ StartCoreFinish(AllClips)
  \/ KeyDown("KeyW")
  \/ KeyUp("KeyW")
  \/ ContactFrame

SpecContacts == Init /\ [][NextContacts]_vars

(***************************************************************************)
(* The camera under pointer events: the pointer lock taken and lost, mouse *)
(* moves up, down and sideways, and frames that find the character on the  *)
(* ground, at and just above CAMERA_BELOW_PLAYER_ENABLE_HEIGHT, and high.  *)
(***************************************************************************)
CameraFrame ==
  \E cy \in {PLAYER_HEIGHT \div 2, CAMERA_BELOW_PLAYER_ENABLE_HEIGHT,
             CAMERA_BELOW_PLAYER_ENABLE_HEIGHT + 1, 30 * U} :
    Frame(TicksPerSec \div 10,
             PhysicsAnswer(<<>>, TRUE, <<0, 0, 0>>, <<0, cy, 0>>), 0)

NextCamera ==
  \/ StartCoreSetup
  \/ StartCoreFinish(AllClips)
  \/ \E locked \in BOOLEAN : PointerLockChange(locked)
  \/ \E mx \in {-400, 0, 400}, my \in {-300, 300} : MouseMove(mx, my)
  \/ CameraFrame

SpecCamera == Init /\ [][NextCamera]_vars

(***************************************************************************)
(* The animation selector under short frames: 1/60 s and 0.1 s, on and off *)
(* the ground, at rest and moving, with a wall to climb.                   *)
(***************************************************************************)
AnimFrame ==
  \E dt \in {TicksPerSec \div 60, TicksPerSec \div 10}, ray \in BOOLEAN,
     vel \in {<<0, 0, 0>>, <<3 * U, -12 * U, -4 * U>>} :
    \E ms \in {<<>>, <<Manifold(0, 2, PLAYER_HEIGHT \div 2, <<WallKind(0, U)>>)>>} :
      Frame(dt, PhysicsAnswer(ms, ray, vel, <<0, PLAYER_HEIGHT \div 2, 0>>), 0)

NextAnim ==
  \/ StartCoreSetup
  \/ StartCoreFinish(AllClips)
  \/ KeyDown("KeyW")
  \/ KeyUp("KeyW")
  \/ AnimFrame

SpecAnim == Init /\ [][NextAnim]_vars

(***************************************************************************)
(* Braking on flat ground: no key is ever pressed, the floor's contact     *)
(* normal is (0,1,0), the first frame finds the body at some velocity and  *)
(* every later frame finds it at the velocity the frame before wrote.  The *)
(* host calls stepCore once per animation frame, so frames keep coming.    *)
(***************************************************************************)
BrakeAnswer(vel) ==
  PhysicsAnswer(<<Manifold(0, 2, PLAYER_HEIGHT \div 2, <<FloorKind>>)>>, TRUE,
                vel, <<0, PLAYER_HEIGHT \div 2, 0>>)

BrakeFirstFrame ==
  /\ ~frame.ran /\ phase = "running"
  /\ \E vx, vz \in {-20 * U, -3 * U, 0, U \div 2, 12 * U} :
       \E dt \in {TicksPerSec \div 60, TicksPerSec \div 10} :
         CountedFrame(dt, BrakeAnswer(<<vx, 0, vz>>), 0)

BrakeFrame ==
  /\ frame.ran
  /\ \E dt \in {TicksPerSec \div 60, TicksPerSec \div 10} :
       CountedFrame(dt, BrakeAnswer(Player.vel), 0)

NextBrake ==
  \/ StartCoreSetup
  \/ StartCoreFinish(AllClips)
  \/ BrakeFirstFrame
  \/ BrakeFrame

\* the host's animation-frame callback fires
HostFrame == phase = "running" /\ tick' = 1 - tick

SpecBrake == Init /\ [][NextBrake]_vars /\ WF_tick(HostFrame)

(***************************************************************************)
(* Running up to speed on flat ground: the character stands at rest, the   *)
(* forward key goes down at some time and stays down, and every frame      *)
(* finds the body at the velocity the frame before wrote.  Frames of       *)
(* 1/60 s, 0.05 s and 0.1 s.                                               *)
(***************************************************************************)
AccelFrame ==
  \E dt \in {TicksPerSec \div 60, TicksPerSec \div 20, TicksPerSec \div 10} :
    CountedFrame(dt, BrakeAnswer(Player.vel), 0)

NextAccel ==
  \/ StartCoreSetup
  \/ StartCoreFinish(AllClips)
  \/ KeyDown("KeyW")
  \/ AccelFrame

SpecAccel == Init /\ [][NextAccel]_vars /\ WF_tick(HostFrame)

(***************************************************************************)
(* The controller of a host page that switches wall climbing off by        *)
(* setting CONFIG.WALL_CLIMB_MIN_NORMAL = 999, under the keys and frames   *)
(* of Spec.                                                                *)
(***************************************************************************)
NoClimbConfig == [DefaultConfig EXCEPT !.WALL_CLIMB_MIN_NORMAL = 999 * U]

SpecNoClimb == Created(NoClimbConfig) /\ [][Next]_vars

(***************************************************************************)
(* The controller of Spec with the ends of Climbing timed.                 *)
(***************************************************************************)
ExitsFrame ==
  \E ray \in BOOLEAN, ms \in CtlScenes(PLAYER_HEIGHT \div 2) :
    TimedFrame(TicksPerSec \div 10,
               PhysicsAnswer(ms, ray, <<3 * U, -12 * U, -4 * U>>,
                             <<0, PLAYER_HEIGHT \div 2, 0>>), 0)

NextExits ==
  \/ StartCoreSetup
  \/ StartCoreFinish(AllClips)
  \/ \E k \in CtlKeys : KeyDown(k)
  \/ \E k \in CtlKeys : KeyUp(k)
  \/ ExitsFrame

SpecExits == Init /\ [][NextExits]_vars

(***************************************************************************)
(* The controller of a host page that sets CONFIG.PLAYER_MOVE_MIDAIR =     *)
(* false, under the keys and frames of Spec.                               *)
(***************************************************************************)
BallisticConfig == [DefaultConfig EXCEPT !.PLAYER_MOVE_MIDAIR = FALSE]

SpecBallistic == Created(BallisticConfig) /\ [][Next]_vars

(***************************************************************************)
(* A host that counts its frames, may call stepCore before startCore and   *)
(* whose clip files may lack animations: any of these sets of clips is     *)
(* loaded.  Frames of 0.1 s, on and off the ground, at rest and moving,    *)
(* with a wall to climb.                                                   *)
(***************************************************************************)
ClipSets ==
  { {}, {"idle"}, {"in_air"}, {"idle", "move"}, {"move", "in_air", "climb"},
    AllClips }

ClipsFrame ==
  \E ray \in BOOLEAN, vel \in {<<0, 0, 0>>, <<3 * U, -12 * U, -4 * U>>} :
    \E ms \in {<<>>, <<Manifold(0, 2, PLAYER_HEIGHT \div 2, <<WallKind(0, U)>>)>>} :
      CountedFrame(TicksPerSec \div 10,
                   PhysicsAnswer(ms, ray, vel, <<0, PLAYER_HEIGHT \div 2, 0>>), 0)

NextClips ==
  \/ StartCoreSetup
  \/ \E loaded \in ClipSets : StartCoreFinish(loaded)
  \/ KeyDown("KeyW")
  \/ KeyUp("KeyW")
  \/ ClipsFrame

SpecClips == Init /\ [][NextClips]_vars

(***************************************************************************)
(* Climbing with the wall coming and going: forward and jump keys, frames  *)
(* of 0.1 s and 0.3 s, in the air, at a wall and on the floor.             *)
(***************************************************************************)
GraceFrame ==
  \E dt \in {TicksPerSec \div 10, (3 * TicksPerSec) \div 10} :
    \E ms \in {<<>>, <<Manifold(0, 2, PLAYER_HEIGHT \div 2, <<FloorKind>>)>>,
                <<Manifold(1, 2, PLAYER_HEIGHT \div 2, <<WallKind(0, U)>>)>>} :
      LapseTimedFrame(dt, PhysicsAnswer(ms, FALSE, <<3 * U, -12 * U, -4 * U>>,
                                        <<0, PLAYER_HEIGHT \div 2, 0>>), 0)

NextGrace ==
  \/ StartCoreSetup
  \/ StartCoreFinish(AllClips)
  \/ \E k \in CtlKeys : KeyDown(k)
  \/ \E k \in CtlKeys : KeyUp(k)
  \/ GraceFrame

SpecGrace == Init /\ [][NextGrace]_vars

(***************************************************************************)
(* The controller at a wall it faces (the wall's normal is (0,0,1), the    *)
(* character's forward (0,0,-1)): forward, back and jump keys, frames of   *)
(* 0.1 s in the air, at the wall and on the floor, the body falling or     *)
(* still moving as a wall-jump launched it.                                *)
(***************************************************************************)
WallFrame ==
  \E vel \in {<<3 * U, -12 * U, -4 * U>>, <<0, 20 * U, WALL_JUMP_LAUNCH>>} :
    \E ms \in {<<>>, <<Manifold(0, 2, PLAYER_HEIGHT \div 2, <<FloorKind>>)>>,
                <<Manifold(1, 2, PLAYER_HEIGHT \div 2, <<WallKind(0, U)>>)>>} :
      Frame(TicksPerSec \div 10,
            PhysicsAnswer(ms, FALSE, vel, <<0, PLAYER_HEIGHT \div 2, 0>>), 0)

NextWall ==
  \/ StartCoreSetup
  \/ StartCoreFinish(AllClips)
  \/ \E k \in {"KeyW", "KeyS", "Space"} : KeyDown(k)
  \/ \E k \in {"KeyW", "KeyS", "Space"} : KeyUp(k)
  \/ WallFrame

SpecWall == Init /\ [][NextWall]_vars

(***************************************************************************)
(* Landing overrides climbing.                                             *)
(***************************************************************************)
\* C1: at the end of every frame in which updatePlayerContacts has set
\* playerGrounded, playerClimbing is false and the climb grace timer is 0.
LandingOverridesClimbing ==
  frame.ran /\ state.playerGrounded
    => ~state.playerClimbing /\ state.climbAnimGrace = 0

\* a frame that began climbing and ended grounded, at a wall, forward held
LandedFromClimbAtWall ==
  /\ frame.ran /\ frame.climbingAtStart
  /\ state.playerGrounded /\ state.playerOnWall /\ frame.moveAxis > 0

(***************************************************************************)
(* Climb entry.                                                            *)
(***************************************************************************)
\* the four conditions of entry, read off the frame's record
Airborne == ~frame.grounded
ForwardHeld == frame.moveAxis > 0
CooldownOver == frame.exitTimer <= 0
WallConfident == state.playerOnWall /\ frame.wallLen >= WALL_CLIMB_MIN_NORMAL

\* C2: in a frame that starts with playerClimbing false, the climb decision
\* sets playerClimbing iff the character is airborne, moveAxis > 0, the exit
\* cooldown is over after this frame's decrement, and it is on a wall whose
\* normal has magnitude >= WALL_CLIMB_MIN_NORMAL.
ClimbEntryIffAllFour ==
  frame.ran /\ Player.present /\ ~frame.climbingAtStart
    => (frame.climbDecision
          <=> Airborne /\ ForwardHeld /\ CooldownOver /\ WallConfident)

\* entry is blocked by the cooldown alone
EntryBlockedByCooldownAlone ==
  /\ frame.ran /\ ~frame.climbingAtStart /\ ~frame.climbDecision
  /\ Airborne /\ ForwardHeld /\ ~CooldownOver /\ WallConfident

(***************************************************************************)
(* Jump debounce.                                                          *)
(***************************************************************************)
\* C3, as claimed: a hold of the jump key over N >= 1 frames triggers exactly
\* one jump or wall-jump.
HoldTriggersExactlyOne ==
  state.keys["Space"] /\ hold.frames >= 1 => hold.jumps = 1

\* C3, amended: a hold of the jump key over N >= 1 frames triggers at most one
\* jump or wall-jump: exactly one if the first of the frames finds spaceWasDown
\* false and the character climbing (after the climb decision) or grounded,
\* and none otherwise.
HoldTriggersAtMostOne ==
  state.keys["Space"] /\ hold.frames >= 1
    => hold.jumps = (IF hold.first \in {"climb", "ground"} THEN 1 ELSE 0)

\* the key held over two frames or more, with its one jump
HeldTwoFramesOneJump ==
  state.keys["Space"] /\ hold.frames >= 2 /\ hold.jumps = 1

\* C4: a jump edge on a frame that is grounded and not climbing sets the
\* vertical velocity to PLAYER_JUMP_IMPULSE and keeps the horizontal velocity
\* the integrator wrote; no later frame of the same hold calls jump or
\* wallJumpOff, also when the character lands again or climbs.
GroundJumpOnce ==
  /\ frame.ran /\ frame.spaceEdge /\ frame.grounded /\ ~frame.climbDecision
       => /\ frame.jumped = "jump"
          /\ Player.vel = <<frame.velOut[1], PLAYER_JUMP_IMPULSE, frame.velOut[3]>>
  /\ state.keys["Space"] /\ hold.first = "ground" /\ hold.frames >= 2
       => frame.jumped = "none"

\* a later frame of a hold that began with a ground jump finds the character
\* climbing
ClimbingInHoldAfterGroundJump ==
  /\ state.keys["Space"] /\ hold.first = "ground" /\ hold.frames >= 2
  /\ frame.climbDecision /\ LengthSq(<<frame.velOut[1], frame.velOut[3]>>) > 0

(***************************************************************************)
(* The integrator's bounds.                                                *)
(***************************************************************************)
\* C5: after every run of applyCharacterMovement, whatever the body's prior
\* velocity, the move axis, dt, the grounded flag and the wall state, the
\* horizontal speed written to the body is at most PLAYER_MAX_SPEED.
SpeedAtMostMax ==
  frame.ran /\ frame.mover = "move"
    => LengthSq(<<frame.velOut[1], frame.velOut[3]>>)
         <= PLAYER_MAX_SPEED * PLAYER_MAX_SPEED

\* a body faster than PLAYER_MAX_SPEED went in, sliding along a wall with
\* input, and came out at no more than PLAYER_MAX_SPEED
FastBodyClamped ==
  /\ frame.ran /\ frame.mover = "move" /\ frame.wallSliding
  /\ LengthSq(<<frame.velIn[1], frame.velIn[3]>>) > PLAYER_MAX_SPEED * PLAYER_MAX_SPEED
  /\ LengthSq(<<frame.velOut[1], frame.velOut[3]>>) > 0

\* C6, as claimed: on every frame in which applyCharacterMovement runs while
\* the character is wall-sliding (airborne, on a wall, moveAxis # 0), the
\* vertical velocity written is never below WALL_SLIDE_MAX_FALL_SPEED,
\* whatever wall contacts set playerOnWall.
WallSlideFallCapped ==
  frame.ran /\ frame.mover = "move" /\ frame.wallSliding
    => frame.velOut[2] >= WALL_SLIDE_MAX_FALL_SPEED

(***************************************************************************)
(* Ground contacts.                                                        *)
(***************************************************************************)
\* the contact points of the last physics step: <<manifold, point>>
ContactIndices ==
  { <<i, j>> \in (DOMAIN world.manifolds) \X (1..2) :
      j \in DOMAIN world.manifolds[i].points }

\* point ij belongs to a pair the character is part of, its normal, turned to
\* point at the character, rises by more than GROUND_NORMAL_MIN_Y, and it lies
\* on the character within the ground band
Qualifies(ij) ==
  LET m == world.manifolds[ij[1]]
      pt == m.points[ij[2]]
      bottomY == Player.pos[2] - PLAYER_HEIGHT \div 2
      ny == IF m.body0 = PlayerPointer THEN pt.normalWorldOnB[2]
            ELSE -pt.normalWorldOnB[2]
      py == IF m.body0 = PlayerPointer THEN pt.positionWorldOnA
            ELSE pt.positionWorldOnB
  IN /\ PlayerPointer \in {m.body0, m.body1}
     /\ ny > GROUND_NORMAL_MIN_Y
     /\ bottomY <= py /\ py <= bottomY + BandTop

Penetrating(ij) == world.manifolds[ij[1]].points[ij[2]].distance < 0

\* C7, as claimed: a qualifying contact leaves playerGrounded true, whichever
\* side of the pair the character is on and whatever its reported distance.
GroundedByAnyQualifyingContact ==
  frame.ran /\ Player.present
    => \A ij \in ContactIndices : Qualifies(ij) => state.playerGrounded

\* C7, amended: a qualifying contact whose reported distance is negative
\* leaves playerGrounded true, whichever side of the pair the character is on.
GroundedByPenetratingContact ==
  frame.ran /\ Player.present
    => \A ij \in ContactIndices :
         Qualifies(ij) /\ Penetrating(ij) => state.playerGrounded

\* grounded by a single contact, the character the second body of the pair
\* and the normal just above the threshold
GroundedAsSecondBody ==
  /\ frame.ran /\ state.playerGrounded
  /\ Cardinality(ContactIndices) = 1
  /\ \E ij \in ContactIndices :
       /\ Qualifies(ij) /\ Penetrating(ij)
       /\ world.manifolds[ij[1]].body1 = PlayerPointer
       /\ world.manifolds[ij[1]].points[ij[2]].normalWorldOnB[2]
            = -(GROUND_NORMAL_MIN_Y + 1)

(***************************************************************************)
(* Wall confidence.                                                        *)
(***************************************************************************)
\* the wall normal as the contact loops leave it, before renormalisation
AccumulatedWallNormal == accumulatedContacts(state, Player, world).wallNormal

\* airborne, forward held, not climbing, on a wall whose accumulated normal is
\* 0.9 along (1,0,0)
NineTenthsWall ==
  /\ frame.ran /\ Player.present /\ ~frame.climbingAtStart
  /\ ~frame.grounded /\ frame.moveAxis > 0 /\ frame.exitTimer <= 0
  /\ state.playerOnWall /\ AccumulatedWallNormal = <<(9 * U) \div 10, 0>>

DynamicMinPitch ==
  IF Player.pos[2] - GROUND_PLANE_Y > CAMERA_BELOW_PLAYER_ENABLE_HEIGHT
  THEN CAMERA_MIN_PITCH_BELOW ELSE CAMERA_MIN_PITCH

\* C8: once updateCamera has run, cameraPitch lies in [dynamicMinPitch,
\* CAMERA_MAX_PITCH] after every mouse move and every frame, dynamicMinPitch
\* being CAMERA_MIN_PITCH_BELOW while the character is more than
\* CAMERA_BELOW_PLAYER_ENABLE_HEIGHT above GROUND_PLANE_Y and CAMERA_MIN_PITCH
\* otherwise.
PitchWithinDynamicRange ==
  state.cameraYawInitialized
    => DynamicMinPitch <= state.cameraPitch /\ state.cameraPitch <= CAMERA_MAX_PITCH

\* the pointer has pushed the camera below the character, as far as it goes
PitchAtLowerBoundBelowPlayer ==
  /\ state.cameraYawInitialized /\ state.pointerLocked
  /\ Player.pos[2] - GROUND_PLANE_Y > CAMERA_BELOW_PLAYER_ENABLE_HEIGHT
  /\ state.cameraPitch = CAMERA_MIN_PITCH_BELOW

(***************************************************************************)
(* The air latch.                                                          *)
(***************************************************************************)
\* the latch is on only after an unbroken run of frames, neither grounded nor
\* climbing, of ANIM_AIR_MIN_TIME in all, and a grounded frame resets latch
\* and timer
LatchDebounced ==
  /\ state.animInAir => frame.airRun >= ANIM_AIR_MIN_TIME
  /\ frame.ran /\ Player.present /\ frame.grounded
       => ~state.animInAir /\ state.animAirTimer = 0

\* the last frame was 1/60 s long and airborne, the one before it grounded
OneShortAirborneFrame ==
  /\ frame.ran /\ Player.present /\ frame.groundedBefore
  /\ frame.dt = TicksPerSec \div 60 /\ frame.airRun = frame.dt

\* C10, as claimed: the latch is debounced, and a single airborne frame of
\* 1/60 s after a grounded frame leaves the latch off and the animation
\* state unchanged.
ShortDropKeepsAnimation ==
  /\ LatchDebounced
  /\ OneShortAirborneFrame
       => ~state.animInAir /\ state.playerCurrentState = frame.stateBefore

\* C10, amended: the latch is debounced, and a single airborne frame of
\* 1/60 s after a grounded frame leaves the latch off, so that the animation
\* state does not become in_air: it is move or idle, as the horizontal speed
\* of that frame selects.
ShortDropNeverInAir ==
  /\ LatchDebounced
  /\ OneShortAirborneFrame
       => /\ ~state.animInAir
          /\ state.playerCurrentState
               = (IF LengthSq(<<Player.vel[1], Player.vel[3]>>)
                       > MOVE_SPEED_THRESHOLD * MOVE_SPEED_THRESHOLD
                  THEN "move" ELSE "idle")

\* the short drop has happened to a moving character, and left it moving
ShortDropWhileMoving ==
  /\ OneShortAirborneFrame /\ ~state.animInAir /\ state.animAirTimer = frame.dt
  /\ state.playerCurrentState = "move" /\ frame.stateBefore = "move"

(***************************************************************************)
(* Braking to rest.                                                        *)
(***************************************************************************)
HorizontalIn == <<frame.velIn[1], frame.velIn[3]>>
HorizontalOut == <<frame.velOut[1], frame.velOut[3]>>
Moving == frame.ran /\ <<Player.vel[1], Player.vel[3]>> # Zero2
AtRestIdle ==
  <<Player.vel[1], Player.vel[3]>> = Zero2 /\ state.playerCurrentState = "idle"

\* no component of the horizontal velocity grows or changes sign in a frame
NoOvershoot ==
  \A i \in {1, 2} :
    /\ HorizontalOut[i] * HorizontalIn[i] >= 0
    /\ Abs(HorizontalOut[i]) <= Abs(HorizontalIn[i])

\* the frame changed the horizontal velocity by at most PLAYER_BRAKE * dt
ChangeWithinBrake ==
  Length(Sub(HorizontalOut, HorizontalIn))
    <= Div(PLAYER_BRAKE * frame.dt, TicksPerSec) + 2

ClimbingDisabled == CONFIG.WALL_CLIMB_MIN_NORMAL > U => ~state.playerClimbing

\* a frame that met every other condition of entry: airborne, forward held,
\* cooldown over, at a wall with a unit wall normal
EntryRefusedAtWall ==
  /\ CONFIG.WALL_CLIMB_MIN_NORMAL > U
  /\ frame.ran /\ Airborne /\ ForwardHeld /\ CooldownOver
  /\ state.playerOnWall /\ frame.wallLen = U
  /\ ~state.playerClimbing

OpposingInput == frame.moveAxis # 0 /\ Dot(HorizontalIn, frame.target) < 0

\* C14: in a grounded frame of the integrator the limit on the change of the
\* horizontal velocity is PLAYER_BRAKE * dt without movement input and with
\* input opposite to the motion, and PLAYER_ACCEL * dt otherwise.
GroundRateBrakesOpposingInput ==
  frame.ran /\ frame.mover = "move" /\ frame.grounded
    => frame.rate = IF frame.moveAxis = 0 \/ OpposingInput
                    THEN PLAYER_BRAKE ELSE PLAYER_ACCEL

(***************************************************************************)
(* The initial camera pitch.                                               *)
(***************************************************************************)
\* C15: without pointer input, once startCore has finished and a stepCore has
\* run updateCamera, cameraPitch is CAMERA_DEFAULT_PITCH (which lies within
\* the pitch bounds).
PitchIsDefaultAfterFirstFrame ==
  /\ CAMERA_MIN_PITCH <= CAMERA_DEFAULT_PITCH
  /\ CAMERA_DEFAULT_PITCH <= CAMERA_MAX_PITCH
  /\ phase = "running" /\ frame.cameraRan => state.cameraPitch = CAMERA_DEFAULT_PITCH

(***************************************************************************)
(* Movement in mid-air with PLAYER_MOVE_MIDAIR off.                        *)
(***************************************************************************)
\* a frame of the integrator, airborne, with PLAYER_MOVE_MIDAIR off
BallisticFrame ==
  /\ ~CONFIG.PLAYER_MOVE_MIDAIR
  /\ frame.ran /\ frame.mover = "move" /\ ~frame.grounded

\* C16 as stated: on such a frame the integrator writes back the horizontal
\* velocity it read, when that is within PLAYER_MAX_SPEED.
MidAirVelocityUntouched ==
  BallisticFrame /\ Length(HorizontalIn) <= PLAYER_MAX_SPEED
    => HorizontalOut = HorizontalIn

\* C16: on such a frame the movement keys have no effect: the integrator's
\* target is zero, its rate PLAYER_AIR_BRAKE, there is no wall slide, the
\* vertical velocity is written back as read and no horizontal component
\* grows or changes sign.  (The air brake and the sideways damping still act.)
MidAirInputIgnored ==
  BallisticFrame
    => /\ frame.target = Zero2 /\ frame.rate = PLAYER_AIR_BRAKE
       /\ ~frame.wallSliding
       /\ frame.velOut[2] = frame.velIn[2]
       /\ NoOvershoot

\* such a frame with forward held, at a wall, that slowed the character
BrakedInMidAirDespiteInput ==
  /\ BallisticFrame /\ frame.moveAxis > 0 /\ state.playerOnWall
  /\ HorizontalOut # HorizontalIn

(***************************************************************************)
(* stepCore before startCore.                                              *)
(***************************************************************************)
\* what C17 lists: contact flags, climbing flag and timers, the stored jump
\* flag, the animation state and latch, the camera's yaw, pitch and distance
ControllerFields ==
  << state.playerGrounded, state.playerOnWall, state.playerWallNormal,
     state.playerClimbing, state.climbExitTimer, state.climbAnimGrace,
     state.spaceWasDown, state.playerCurrentState, state.playerCurrentAction,
     state.animInAir, state.animAirTimer,
     state.cameraYaw, state.cameraPitch, state.cameraDistance >>

\* C17: a call of stepCore that finds the physics world uninitialised or the
\* character body absent throws nothing and leaves every controller field as
\* it was.
NoOpWithoutWorldOrBody ==
  [][(~state.physicsWorld \/ ~Player.present) /\ tick' # tick
       => ~frame'.fault /\ ControllerFields' = ControllerFields]_vars

\* stepCore has been called before startCore
CalledBeforeStart == phase = "created" /\ tick = 1 /\ ~Player.present

(***************************************************************************)
(* The animation selector.                                                 *)
(***************************************************************************)
\* the state the selector picks, read off the state a frame leaves
PrioritySelection ==
  IF state.playerClimbing \/ state.climbAnimGrace > 0 THEN "climb"
  ELSE IF state.animInAir THEN "in_air"
  ELSE IF Length(<<Player.vel[1], Player.vel[3]>>) > MOVE_SPEED_THRESHOLD THEN "move"
  ELSE "idle"

\* C18: a frame whose selector picks a state whose clip is missing throws
\* nothing and leaves playerCurrentAction and playerCurrentState as they were.
MissingClipSkipped ==
  [][tick' # tick /\ frame'.ran /\ state'.playerMixer
       /\ ~state'.playerActions[PrioritySelection']
       => /\ ~frame'.fault
          /\ state'.playerCurrentAction = state.playerCurrentAction
          /\ state'.playerCurrentState = state.playerCurrentState]_vars

\* a loaded clip is current after a frame that selected a missing one
LoadedClipStayedCurrent ==
  /\ frame.ran /\ state.playerMixer
  /\ ~state.playerActions[PrioritySelection]
  /\ state.playerCurrentAction # "none"
  /\ state.playerActions[state.playerCurrentAction]
  /\ frame.stateBefore = state.playerCurrentState

StateIsPrioritySelection ==
  frame.ran /\ state.playerMixer /\ (\A a \in AnimStates : state.playerActions[a])
    => state.playerCurrentState = PrioritySelection

\* a frame that left in_air selected although the character moves faster
\* than MOVE_SPEED_THRESHOLD
InAirSelectedOverMove ==
  /\ frame.ran /\ (\A a \in AnimStates : state.playerActions[a])
  /\ state.playerCurrentState = "in_air" /\ frame.stateBefore = "move"
  /\ Length(<<Player.vel[1], Player.vel[3]>>) > MOVE_SPEED_THRESHOLD

(***************************************************************************)
(* The playback direction of the move clip.                                *)
(***************************************************************************)
\* C21 as stated: with all clips loaded, after every frame that leaves the
\* animation state idle, in_air or climb, moveAnimDir is 1.
MoveDirForwardOutsideMove ==
  frame.ran /\ state.playerMixer /\ state.playerCurrentState # "move"
    => state.moveAnimDir = 1

\* C21: with all clips loaded, after every frame that leaves the animation
\* state idle or in_air, moveAnimDir is 1, whatever was played before; a frame
\* that selects climb leaves moveAnimDir as it found it.
MoveDirForwardInIdleAndAir ==
  /\ [](frame.ran /\ state.playerMixer
          /\ state.playerCurrentState \in {"idle", "in_air"}
          => state.moveAnimDir = 1)
  /\ [][frame'.ran /\ state'.playerMixer /\ state'.playerCurrentState = "climb"
          => state'.moveAnimDir = state.moveAnimDir]_vars

\* climbing straight after reverse locomotion: the move clip still runs
\* backwards
ClimbAfterReverse ==
  /\ frame.ran /\ state.playerCurrentState = "climb" /\ frame.stateBefore = "move"
  /\ state.moveAnimDir = -1

(***************************************************************************)
(* The grace time of Climbing.                                             *)
(***************************************************************************)
\* the frame just run began Climbing, stayed airborne with forward held, did
\* not meet the conditions of entry and made no wall-jump
LapsedFrame ==
  /\ frame.ran /\ frame.climbingAtStart
  /\ ~frame.grounded /\ frame.moveAxis > 0
  /\ ~qualifying(Ctx(state, Player, frame))
  /\ frame.jumped # "walljump"

ClimbVelocity(n) ==
  <<ScaleBy(n, -WALL_CLIMB_STICK_SPEED, U)[1], WALL_CLIMB_SPEED,
    ScaleBy(n, -WALL_CLIMB_STICK_SPEED, U)[2]>>
LaunchVelocity(n) ==
  <<ScaleBy(n, WALL_JUMP_LAUNCH, U)[1], PLAYER_JUMP_IMPULSE,
    ScaleBy(n, WALL_JUMP_LAUNCH, U)[2]>>

\* C23: a jump edge on a frame whose climb decision ends in Climbing makes a
\* wall-jump: the frame first writes the climb velocity and then replaces it
\* by wallNormal * 8 horizontally and PLAYER_JUMP_IMPULSE vertically,
\* playerClimbing becomes false, the grace timer 0 and climbExitTimer
\* WALL_CLIMB_EXIT_COOLDOWN; and no frame engages Climbing while
\* climbExitTimer, after the frame's decrement, is above 0.
WallJumpOnEdgeWhileClimbing ==
  /\ frame.ran /\ frame.spaceEdge /\ frame.climbDecision
       => /\ frame.jumped = "walljump"
          /\ frame.velOut = ClimbVelocity(state.playerWallNormal)
          /\ Player.vel = LaunchVelocity(state.playerWallNormal)
          /\ ~state.playerClimbing /\ state.climbAnimGrace = 0
          /\ state.climbExitTimer = WALL_CLIMB_EXIT_COOLDOWN
  /\ frame.ran /\ ~frame.climbingAtStart /\ frame.climbDecision
       => frame.exitTimer = 0

\* a wall-jump off the wall of normal (0,0,1): the climb velocity
\* (0, 9.5, -3) was replaced by (0, 25, 8)
WallJumpReplacedClimbVelocity ==
  /\ frame.ran /\ frame.jumped = "walljump"
  /\ frame.velOut = <<0, WALL_CLIMB_SPEED, -WALL_CLIMB_STICK_SPEED>>
  /\ Player.vel = <<0, PLAYER_JUMP_IMPULSE, WALL_JUMP_LAUNCH>>
  /\ state.climbExitTimer = WALL_CLIMB_EXIT_COOLDOWN

(***************************************************************************)
(* The rate of the integrator.                                             *)
(***************************************************************************)
\* C24 as stated: the integrator's rate is the acceleration rate when its
\* target is not zero and the brake rate when its target is the zero vector.
RateByTarget ==
  frame.ran /\ frame.mover = "move"
    => frame.rate = IF frame.target # Zero2 THEN accelOf(frame.grounded)
                    ELSE brakeOf(frame.grounded)

\* C24: with PLAYER_MOVE_MIDAIR on, the integrator's rate is the acceleration
\* rate whenever there is movement input (moveAxis # 0), also when the
\* wall-slide redirect has left a zero target, and the brake rate exactly
\* when there is none; without input the target is zero.
RateByInput ==
  frame.ran /\ frame.mover = "move" /\ CONFIG.PLAYER_MOVE_MIDAIR
    => /\ frame.rate = IF frame.moveAxis # 0 THEN accelOf(frame.grounded)
                       ELSE brakeOf(frame.grounded)
       /\ frame.moveAxis = 0 => frame.target = Zero2

\* backing away from the wall in the air: the redirect removed the whole
\* desired velocity and the rate is the air acceleration
AccelTowardZeroTarget ==
  /\ frame.ran /\ frame.mover = "move" /\ frame.wallSliding
  /\ frame.moveAxis < 0 /\ frame.target = Zero2
  /\ frame.rate = accelOf(FALSE) /\ frame.rate # brakeOf(FALSE)

(***************************************************************************)
(* Running up to speed.                                                    *)
(***************************************************************************)
HorizontalSpeed == Length(<<Player.vel[1], Player.vel[3]>>)
WithinMaxSpeed == HorizontalSpeed <= PLAYER_MAX_SPEED
AtMaxSpeed ==
  \E v \in {<<Player.vel[1], Player.vel[3]>>} : Length(v) = PLAYER_MAX_SPEED
ForwardDown == state.keys["KeyW"]

\* C25: grounded on flat ground with forward held from rest, every frame
\* leaves the horizontal speed at min(speed before + PLAYER_ACCEL * dt,
\* PLAYER_MAX_SPEED); the speed never decreases and never exceeds
\* PLAYER_MAX_SPEED, and once forward is held it reaches exactly
\* PLAYER_MAX_SPEED after finitely many frames and stays there.
AcceleratesToMaxSpeed ==
  /\ [][state.keys["KeyW"] /\ tick' # tick
          => HorizontalSpeed'
               = Min(HorizontalSpeed + Div(PLAYER_ACCEL * frame'.dt, TicksPerSec),
                     PLAYER_MAX_SPEED)]_vars
  /\ [][HorizontalSpeed' >= HorizontalSpeed]_vars
  /\ []WithinMaxSpeed
  /\ ForwardDown ~> []AtMaxSpeed

\* the frame in which the character reached PLAYER_MAX_SPEED, from within
\* less than one frame's gain of it
ReachedMaxSpeed ==
  /\ frame.ran /\ frame.moveAxis > 0 /\ frame.grounded
  /\ Length(HorizontalIn) < PLAYER_MAX_SPEED
  /\ Length(HorizontalIn) + Div(PLAYER_ACCEL * frame.dt, TicksPerSec) > PLAYER_MAX_SPEED
  /\ AtMaxSpeed

(***************************************************************************)
(* Key events between frames.                                              *)
(***************************************************************************)
\* the first frame of a hold of the jump key found the stored flag of the
\* last frame still set, although the character could have jumped: the key
\* was released and pressed again since the last frame
RepressedBetweenFrames ==
  /\ frame.ran /\ state.keys["Space"] /\ hold.frames = 1 /\ hold.first = "unable"
  /\ (frame.grounded \/ frame.climbDecision)

\* C26: a key event writes the key table and nothing else; a frame stores
\* the jump key's state as the table shows it when the frame runs, and jumps
\* or wall-jumps only if the table shows the key down and the frame before
\* stored it up.  So a press and release between two frames trigger nothing,
\* and a release and press between two frames that both see the key down
\* trigger no new jump.
FrameReadsKeyTableOnly ==
  /\ [][state'.keys # state.keys
          => /\ [state' EXCEPT !.keys = state.keys] = state
             /\ Player' = Player /\ frame' = frame]_vars
  /\ [][phase = "running" /\ state'.keys = state.keys
          => /\ state'.spaceWasDown = state.keys["Space"]
             /\ frame'.jumped # "none"
                  => state.keys["Space"] /\ ~state.spaceWasDown]_vars
  /\ [](RepressedBetweenFrames => frame.jumped = "none" /\ ~frame.spaceEdge)

\* a grounded frame after a release and a new press: no jump
RepressNoJump ==
  /\ RepressedBetweenFrames /\ frame.grounded /\ ~frame.climbDecision
  /\ frame.jumped = "none" /\ Player.vel[2] # PLAYER_JUMP_IMPULSE

(***************************************************************************)
(* The timers of Climbing.                                                 *)
(***************************************************************************)
\* C27: whenever playerClimbing is set, climbExitTimer is 0; the timer rises
\* only in a frame that makes a wall-jump, which leaves playerClimbing
\* false, and a frame that engages Climbing leaves the timer at 0.
NoCooldownWhileClimbing ==
  /\ [](state.playerClimbing => state.climbExitTimer = 0)
  /\ [][state'.climbExitTimer > state.climbExitTimer
          => frame'.jumped = "walljump" /\ ~state'.playerClimbing]_vars
  /\ [][state'.playerClimbing /\ ~state.playerClimbing
          => state'.climbExitTimer = 0 /\ frame'.exitTimer = 0]_vars

\* Climbing again, the jump key still held from the wall-jump that started
\* the cooldown
ClimbingAgainAfterCooldown ==
  /\ frame.ran /\ state.playerClimbing /\ state.climbExitTimer = 0
  /\ state.keys["Space"] /\ hold.first = "climb" /\ hold.jumps = 1

\* C28: after every frame, climbAnimGrace > 0 implies playerClimbing: every
\* end of Climbing leaves the grace timer at 0, so with all clips loaded the
\* animation state a frame leaves is climb exactly if playerClimbing is set.
GraceOnlyWhileClimbing ==
  /\ state.climbAnimGrace > 0 => state.playerClimbing
  /\ frame.ran /\ state.playerMixer
       => (state.playerCurrentState = "climb" <=> state.playerClimbing)

\* forward was released with grace time left: Climbing ended, the timer was
\* zeroed and the animation left climb
EndedWithGraceLeft ==
  /\ frame.ran /\ frame.climbingAtStart /\ ~frame.grounded /\ frame.moveAxis <= 0
  /\ lapse > 0 /\ lapse < CLIMB_ANIM_GRACE_SECONDS
  /\ ~state.playerClimbing /\ state.climbAnimGrace = 0
  /\ frame.stateBefore = "climb" /\ state.playerCurrentState # "climb"

(***************************************************************************)
(* The three operations at a wall.                                         *)
(***************************************************************************)
\* what the wall-slide redirect took off the desired velocity of the frame
SlideRemoved ==
  Sub(ScaleBy(getPlayerBasis(Player).forward, PLAYER_MAX_SPEED * frame.moveAxis, U),
      frame.target)
\* the horizontal velocities of climbing and of a wall-jump at the frame's wall
ClimbPush == ScaleBy(state.playerWallNormal, -WALL_CLIMB_STICK_SPEED, U)
Launch == ScaleBy(state.playerWallNormal, WALL_JUMP_LAUNCH, U)

\* C29: in a wall-slide frame, what the redirect removes points the way
\* climbing pushes at that wall and against the way a wall-jump launches;
\* and a body that moves along the launch direction faster than the frame's
\* rate can stop it still does so after the frame.
WallOperationsAgree ==
  frame.ran /\ frame.mover = "move" /\ frame.wallSliding /\ haveWallNormal(state)
    => /\ SlideRemoved # Zero2
            => Dot(SlideRemoved, ClimbPush) > 0 /\ Dot(SlideRemoved, Launch) < 0
       /\ Dot(HorizontalIn, Launch) > Div(frame.rate * frame.dt, TicksPerSec) * 8
            => Dot(HorizontalOut, Launch) > 0

\* C30: a frame that makes a wall-jump classified a wall contact: onWall is
\* set, the wall normal has unit length, and the launch has horizontal speed
\* WALL_JUMP_LAUNCH.
WallJumpHasWall ==
  frame.ran /\ frame.jumped = "walljump"
    => /\ state.playerOnWall
       /\ Length(state.playerWallNormal) = U
       /\ Length(<<Player.vel[1], Player.vel[3]>>) = WALL_JUMP_LAUNCH

====
